---- MODULE Spec2Model ----
(***************************************************************************)
(* Model of package sx (sx.go): Transaction, NewTransactor and the three   *)
(* wrappers dbTransactor, nestableTransactor and nestedTransactor, run     *)
(* against database/sql's *sql.DB and *sql.Tx.                             *)
(*                                                                         *)
(* The program is one goroutine.  Its call stack of Transaction            *)
(* invocations is the variable stack; an action passed to Transaction is   *)
(* caller code, so what it does (return, panic, call Transaction again,    *)
(* call NewTransactor) is chosen nondeterministically.  An action does not  *)
(* call Commit or Rollback on its Transactor itself and does not recover   *)
(* the panic of a Transaction it called.  ret is reset when an action is   *)
(* invoked, so that it always tells of the invocation that finished last   *)
(* with no other started since.                                            *)
(***************************************************************************)
EXTENDS Integers, Sequences, FiniteSets, TLC

VARIABLES
    stack,   \* the active Transaction invocations, outermost first
    txs,     \* every *sql.Tx begun so far: its status and the calls it received
    ret,     \* how the Transaction invocation that has just finished ended
    made,    \* the last NewTransactor call: its argument and its result
    ncalls   \* calls made so far: Transaction, NewTransactor, (*sql.DB).Begin

vars == <<stack, txs, ret, made, ncalls>>

----------------------------------------------------------------------------
\* Bounds of the model.

MaxDepth == 3   \* deepest nesting of Transaction invocations
MaxCalls == 4   \* calls the program and its actions make in one behaviour

----------------------------------------------------------------------------
\* Values.

Nil == "nil"

\* Errors an action returns of its own.
ActionErrs == {"errA", "errB"}

\* Errors of database/sql.
ErrBegin    == "ErrBegin"
ErrCommit   == "ErrCommit"
ErrRollback == "ErrRollback"
ErrTxDone   == "ErrTxDone"

\* Values an action panics with.  panic(nil) reaches recover() as nil on
\* builds before Go 1.21 (and with GODEBUG=panicnil=1) and as a
\* *runtime.PanicNilError on later ones.
PanicVals     == {Nil, "boom"}
PanicNilError == "PanicNilError"
Unsupported   == "unsupported transactor type"

\* The dynamic kinds of the values handed to Transaction and NewTransactor.
SqlDB    == "sqlDB"
SqlTx    == "sqlTx"
Root     == "dbTransactor"
Nestable == "nestableTransactor"
Nested   == "nestedTransactor"
\* A Beginner of the program's own, whose Begin begins on the pool.
Custom   == "customBeginner"

\* A handle: its dynamic kind and the *sql.Tx it embeds (0: none).
Handle(k, t) == [kind |-> k, tx |-> t]
NoHandle == Handle("none", 0)
TheDB    == Handle(SqlDB, 0)
TheCustom == Handle(Custom, 0)

----------------------------------------------------------------------------
\* database/sql, as sx.go uses it.

\* phys, in what a Begin yields, counts the calls of (*sql.DB).Begin made.

\* A *sql.Tx: open, or done as committed, rolledback or aborted (a Commit
\* that failed).  calls lists the Commit and Rollback calls that reached it,
\* each with the depth of the Transaction invocation that issued it.
NewTx(opener) == [status |-> "open", calls |-> <<>>, opener |-> opener]

Called(T, t, op, by) ==
    [T EXCEPT ![t].calls = Append(@, [op |-> op, by |-> by])]

\* The Commit and Rollback calls the transactions of T have received.
RECURSIVE CallCount(_)
CallCount(T) ==
    IF T = <<>> THEN 0
    ELSE Len(T[Len(T)].calls) + CallCount(SubSeq(T, 1, Len(T) - 1))

\* (*sql.DB).Begin: a new transaction, or an error.
SqlDBBegin(T) ==
    { [tx |-> 0, err |-> ErrBegin, phys |-> 1, txs |-> T],
      [tx |-> Len(T) + 1, err |-> Nil, phys |-> 1,
       txs |-> Append(T, NewTx("Transaction"))] }

\* (*sql.Tx).Commit: ErrTxDone on a transaction that is done; otherwise the
\* transaction is done afterwards, committed or not.
SqlTxCommit(t, by, T) ==
    IF T[t].status # "open"
    THEN { [err |-> ErrTxDone, txs |-> Called(T, t, "Commit", by)] }
    ELSE { [err |-> Nil,
            txs |-> [Called(T, t, "Commit", by) EXCEPT ![t].status = "committed"]],
           [err |-> ErrCommit,
            txs |-> [Called(T, t, "Commit", by) EXCEPT ![t].status = "aborted"]] }

\* (*sql.Tx).Rollback: ErrTxDone on a transaction that is done; otherwise the
\* transaction is done afterwards, whatever the driver answers.
SqlTxRollback(t, by, T) ==
    IF T[t].status # "open"
    THEN { [err |-> ErrTxDone, txs |-> Called(T, t, "Rollback", by)] }
    ELSE { [err |-> e,
            txs |-> [Called(T, t, "Rollback", by) EXCEPT ![t].status = "rolledback"]]
           : e \in {Nil, ErrRollback} }

----------------------------------------------------------------------------
\* The wrappers.

\* dbTransactor: Commit and Rollback do nothing; Begin is the embedded
\* (*sql.DB).Begin.
dbTransactorCommit(T)   == { [err |-> Nil, txs |-> T] }
dbTransactorRollback(T) == { [err |-> Nil, txs |-> T] }

\* nestableTransactor: Begin hands back the embedded transaction; Commit and
\* Rollback are the embedded *sql.Tx's.
\* Faulty variant: a nestableTransactor that begins a transaction of its own.
nestableTransactorBeginsAnew(h, T) == SqlDBBegin(T)

nestableTransactorBegin(h, T) ==
    { [tx |-> h.tx, err |-> Nil, phys |-> 0, txs |-> T] }

\* nestedTransactor: Begin hands back the embedded transaction; Commit does
\* nothing; Rollback is the embedded *sql.Tx's.
\* Faulty variant: a nestedTransactor that begins a transaction of its own.
nestedTransactorBeginsAnew(h, T) == SqlDBBegin(T)

nestedTransactorBegin(h, T) ==
    { [tx |-> h.tx, err |-> Nil, phys |-> 0, txs |-> T] }

\* Faulty variant: a nestedTransactor whose Commit is the embedded *sql.Tx's.
nestedTransactorCommitsTx(t, by, T) == SqlTxCommit(t, by, T)

nestedTransactorCommit(t, by, T) == { [err |-> Nil, txs |-> T] }

\* db.Begin(), by the dynamic kind of db.
Begin(h, T) ==
    CASE h.kind = Nestable -> nestableTransactorBegin(h, T)
      [] h.kind = Nested   -> nestedTransactorBegin(h, T)
      [] OTHER             -> SqlDBBegin(T)

\* tx.Commit(), by the dynamic kind of tx.
Commit(w, by, T) ==
    CASE w.kind = Nestable -> SqlTxCommit(w.tx, by, T)
      [] w.kind = Nested   -> nestedTransactorCommit(w.tx, by, T)
      [] OTHER             -> dbTransactorCommit(T)

\* Faulty variant: a nestedTransactor whose Rollback does nothing, as its
\* Commit.
RollbackNotNested(w, by, T) ==
    CASE w.kind = Nestable -> SqlTxRollback(w.tx, by, T)
      [] OTHER             -> dbTransactorRollback(T)

\* tx.Rollback(), by the dynamic kind of tx.
Rollback(w, by, T) ==
    CASE w.kind \in {Nestable, Nested} -> SqlTxRollback(w.tx, by, T)
      [] OTHER                         -> dbTransactorRollback(T)

\* Faulty variant: the case *nestableTransactor is missing from the switch.
ClassifyNestedOnly(db, impl) ==
    IF db.kind = Nested
    THEN Handle(Nested, impl)
    ELSE Handle(Nestable, impl)

\* The switch of Transaction: the wrapper the action is given.
Classify(db, impl) ==
    IF db.kind \in {Nestable, Nested}
    THEN Handle(Nested, impl)
    ELSE Handle(Nestable, impl)

\* Faulty variant: a nestedTransactor is wrapped as the *sql.Tx it embeds.
NewTransactorUnwraps(v) ==
    CASE v.kind = SqlDB  -> [panics |-> FALSE, val |-> Handle(Root, 0)]
      [] v.kind \in {SqlTx, Nested} ->
                            [panics |-> FALSE, val |-> Handle(Nestable, v.tx)]
      [] OTHER           -> [panics |-> TRUE, val |-> NoHandle]

\* NewTransactor: the wrapper for v, or a panic.
NewTransactor(v) ==
    CASE v.kind = SqlDB  -> [panics |-> FALSE, val |-> Handle(Root, 0)]
      [] v.kind = SqlTx  -> [panics |-> FALSE, val |-> Handle(Nestable, v.tx)]
      [] v.kind = Nested -> [panics |-> FALSE, val |-> Handle(Nested, v.tx)]
      [] OTHER           -> [panics |-> TRUE, val |-> NoHandle]

----------------------------------------------------------------------------
\* Transaction.

\* Faulty variant: an error of the action is returned with no Rollback.
AfterActionNoRollback(w, by, e, T) ==
    IF e # Nil
    THEN { [how |-> "return", val |-> e, fin |-> "none", finErr |-> Nil,
            txs |-> T] }
    ELSE { [how |-> "return", val |-> c.err, fin |-> "Commit", finErr |-> c.err,
            txs |-> c.txs] : c \in Commit(w, by, T) }

\* Faulty variant: the error of a failed Rollback replaces the action's.
AfterActionRollbackError(w, by, e, T) ==
    IF e # Nil
    THEN { [how |-> "return", val |-> IF rb.err # Nil THEN rb.err ELSE e,
            fin |-> "Rollback", finErr |-> rb.err, txs |-> rb.txs]
           : rb \in Rollback(w, by, T) }
    ELSE { [how |-> "return", val |-> c.err, fin |-> "Commit", finErr |-> c.err,
            txs |-> c.txs] : c \in Commit(w, by, T) }

\* Faulty variant: the result of Commit is dropped and nil returned.
AfterActionDropsCommitError(w, by, e, T) ==
    IF e # Nil
    THEN { [how |-> "return", val |-> e, fin |-> "Rollback", finErr |-> rb.err,
            txs |-> rb.txs] : rb \in Rollback(w, by, T) }
    ELSE { [how |-> "return", val |-> Nil, fin |-> "Commit", finErr |-> c.err,
            txs |-> c.txs] : c \in Commit(w, by, T) }

\* Lines 56-61: the action returned e.  Rollback and the action's error, or
\* Commit and its result.
AfterAction(w, by, e, T) ==
    IF e # Nil
    THEN { [how |-> "return", val |-> e, fin |-> "Rollback", finErr |-> rb.err,
            txs |-> rb.txs] : rb \in Rollback(w, by, T) }
    ELSE { [how |-> "return", val |-> c.err, fin |-> "Commit", finErr |-> c.err,
            txs |-> c.txs] : c \in Commit(w, by, T) }

\* Lines 49-54, the deferred function, run while the action's panic unwinds
\* Transaction: r is what recover() returns.  With r = nil the panic is
\* stopped all the same, and Transaction returns its result's zero value.
DeferredRecover(w, by, r, T) ==
    IF r # Nil
    THEN { [how |-> "panic", val |-> r, fin |-> "Rollback", finErr |-> rb.err,
            txs |-> rb.txs] : rb \in Rollback(w, by, T) }
    ELSE { [how |-> "return", val |-> Nil, fin |-> "none", finErr |-> Nil,
            txs |-> T] }

\* What recover() returns for panic(v).
Recovered(v) == IF v = Nil THEN {Nil, PanicNilError} ELSE {v}

\* Whether db.Begin() is (*sql.DB).Begin.
IsPool(h) == h.kind \in {SqlDB, Root}

\* An invocation of Transaction(db, action) whose action is running (pc =
\* "action") or has panicked (pc = "panicking"; pv is what recover() will
\* return).  via tells where db came from: "top" (the program outside any
\* action), "given" (the Transactor the enclosing action received) or
\* "other"; beginErr is the error db.Begin() returned.  inner is what the last Transaction call of the action returned.
\* The other fields sum up the invocations made from inside the action:
\* inners counts them, begun counts the (*sql.DB).Begin calls (this
\* invocation's included), allGiven tells that each was made with the given
\* Transactor, allNil that each one's action returned nil, innerFailed that
\* the action of one made with the given Transactor returned an error.
\* up is not 0 when the one Transaction call the action has made so far, with
\* the given Transactor, returned an error or panicked: it counts the
\* invocations, from the innermost one on, whose actions passed that error
\* or panic up as it was.
Frame(db, w, via, b) ==
    [db |-> db, tx |-> w, via |-> via, beginErr |-> b.err,
     pc |-> "action", pv |-> Nil, inner |-> Nil,
     allGiven |-> TRUE, allNil |-> TRUE, innerFailed |-> FALSE,
     inners |-> 0, begun |-> b.phys, up |-> 0]

\* How an action ended, when it is not with nil or an error: it was never
\* invoked, or it panicked.
NotInvoked == "none"
Panicked   == "panic"
IsErr(x) == x \notin {Nil, NotInvoked, Panicked}

\* No invocation has just finished.
NoRet ==
    [depth |-> 0, db |-> NoHandle, tx |-> NoHandle, via |-> "none",
     beginErr |-> Nil, act |-> NotInvoked, pv |-> Nil, how |-> "none", val |-> Nil, fin |-> "none",
     finErr |-> Nil, issued |-> 0, allGiven |-> TRUE, allNil |-> TRUE,
     innerFailed |-> FALSE, inners |-> 0, begun |-> 0, levels |-> 0]

\* The levels an error or a panic has come up unchanged when the action of
\* f ends as act: 1 when it arose in this action, which called no
\* Transaction; one more than below when the action passes it up; 0 when
\* there is none.
Levels(f, act) ==
    IF act = Panicked
    THEN IF f.inners = 0 THEN 1 ELSE IF f.up > 0 THEN f.up + 1 ELSE 0
    ELSE IF IsErr(act)
    THEN IF f.inners = 0 THEN 1
         ELSE IF f.up > 0 /\ act = f.inner THEN f.up + 1 ELSE 0
    ELSE 0

\* The invocation f at depth d ended as o (it returned or panicked with val,
\* after the finalize call fin, which answered finErr) after its action ended
\* as act; issued counts the calls that reached a *sql.Tx in between.
Ended(f, d, act, o, T) ==
    [depth |-> d, db |-> f.db, tx |-> f.tx, via |-> f.via,
     beginErr |-> f.beginErr, act |-> act,
     pv |-> f.pv, how |-> o.how, val |-> o.val, fin |-> o.fin, finErr |-> o.finErr,
     issued |-> CallCount(o.txs) - CallCount(T),
     allGiven |-> f.allGiven, allNil |-> f.allNil, innerFailed |-> f.innerFailed,
     inners |-> f.inners, begun |-> f.begun, levels |-> Levels(f, act)]

\* Lines 34-37: Begin failed as b at depth d.  Transaction returns the error.
\* Faulty variant: the error of Begin is dropped.
BeginFailedReturnsNil(db, via, d, b, T) ==
    Ended(Frame(db, NoHandle, via, b), d, NotInvoked,
          [how |-> "return", val |-> Nil, fin |-> "none", finErr |-> Nil,
           txs |-> b.txs], T)

BeginFailed(db, via, d, b, T) ==
    Ended(Frame(db, NoHandle, via, b), d, NotInvoked,
          [how |-> "return", val |-> b.err, fin |-> "none", finErr |-> Nil,
           txs |-> b.txs], T)

\* The enclosing action f gets r back from the Transaction call it made.
Resume(f, r) ==
    [f EXCEPT !.pc  = IF r.how = "panic" THEN "panicking" ELSE "action",
              !.pv  = IF r.how = "panic" THEN r.val ELSE @,
              !.inner = IF r.how = "return" THEN r.val ELSE @,
              !.allGiven = @ /\ r.allGiven /\ r.via = "given",
              !.allNil = @ /\ r.allNil /\ r.act = Nil,
              !.innerFailed = @ \/ (r.via = "given" /\ IsErr(r.act)),
              !.inners = @ + 1 + r.inners,
              !.begun = @ + r.begun,
              !.up = IF /\ f.inners = 0 /\ r.via = "given" /\ r.levels > 0
                        /\ \/ r.how = "panic"
                           \/ IsErr(r.act) /\ r.val = r.act
                     THEN r.levels ELSE 0]

\* The stack once the invocation above callers has ended as r.
Returned(callers, r) ==
    IF callers = <<>> THEN <<>>
    ELSE [callers EXCEPT ![Len(callers)] = Resume(@, r)]

Depth == Len(stack)
Top == stack[Depth]
InAction == Depth > 0 /\ Top.pc = "action"
IsWrapper(h) == h.kind \in {Root, Nestable, Nested}

\* The handles a Transaction call can be made with, and where each is from.
Beginners == {TheDB, TheCustom} \cup {x \in {made.val} : IsWrapper(x)}

Handles ==
    IF Depth = 0
    THEN { <<h, "top">> : h \in Beginners }
    ELSE { <<Top.tx, "given">> } \cup { <<h, "other">> : h \in Beginners }

Init ==
    /\ stack = <<>>
    /\ txs = <<>>
    /\ ret = NoRet
    /\ made = [arg |-> NoHandle, panics |-> FALSE, val |-> NoHandle]
    /\ ncalls = 0

\* Lines 33-45: Transaction(db, action) is called, by the program or by the
\* running action.  Begin fails and Transaction returns its error, or the
\* action is invoked with the wrapper.
TransactionBegin(db, via) ==
    /\ Depth = 0 \/ InAction
    /\ <<db, via>> \in Handles
    /\ Depth < MaxDepth
    /\ ncalls < MaxCalls
    /\ ncalls' = ncalls + 1
    /\ \E b \in Begin(db, txs) :
          /\ txs' = b.txs
          /\ IF b.err # Nil
             THEN LET r == BeginFailed(db, via, Depth + 1, b, txs)
                  IN /\ stack' = Returned(stack, r)
                     /\ ret' = r
             ELSE /\ stack' = Append(stack,
                                     Frame(db, Classify(db, b.tx), via, b))
                  /\ ret' = NoRet
    /\ UNCHANGED made

\* Lines 56-61: the action returns e: nil, an error of its own, or the error
\* the last Transaction call it made returned.
ActionReturns(e) ==
    /\ InAction
    /\ e \in {Nil, Top.inner} \cup ActionErrs
    /\ \E o \in AfterAction(Top.tx, Depth, e, txs) :
          LET r == Ended(Top, Depth, e, o, txs)
          IN /\ txs' = o.txs
             /\ ret' = r
             /\ stack' = Returned(SubSeq(stack, 1, Depth - 1), r)
    /\ UNCHANGED <<made, ncalls>>

\* The action panics with v.
ActionPanics(v) ==
    /\ InAction
    /\ v \in PanicVals
    /\ \E r \in Recovered(v) :
          stack' = [stack EXCEPT ![Depth].pc = "panicking", ![Depth].pv = r,
                                 ![Depth].up = 0]
    /\ UNCHANGED <<txs, ret, made, ncalls>>

\* Lines 49-54: the panic of the action unwinds Transaction.
Deferred ==
    /\ Depth > 0
    /\ Top.pc = "panicking"
    /\ \E o \in DeferredRecover(Top.tx, Depth, Top.pv, txs) :
          LET r == Ended(Top, Depth, Panicked, o, txs)
          IN /\ txs' = o.txs
             /\ ret' = r
             /\ stack' = Returned(SubSeq(stack, 1, Depth - 1), r)
    /\ UNCHANGED <<made, ncalls>>

\* The values NewTransactor can be called with: the pool, a transaction the
\* program began itself, a wrapper NewTransactor made, the Transactor the
\* running action was given.
Executors ==
    {TheDB}
    \cup { Handle(SqlTx, t) : t \in {i \in 1..Len(txs) : txs[i].opener = "caller"} }
    \cup { x \in {made.val} : IsWrapper(x) }
    \cup IF Depth > 0 THEN {Top.tx} ELSE {}

\* Lines 65-76: NewTransactor(v) is called, by the program or by the running
\* action; its panic is a panic of that action.
CallNewTransactor(v) ==
    /\ Depth = 0 \/ InAction
    /\ v \in Executors
    /\ ncalls < MaxCalls
    /\ ncalls' = ncalls + 1
    /\ LET n == NewTransactor(v)
       IN /\ made' = [arg |-> v, panics |-> n.panics, val |-> n.val]
          /\ stack' = IF n.panics /\ Depth > 0
                      THEN [stack EXCEPT ![Depth].pc = "panicking",
                                         ![Depth].pv = Unsupported,
                                         ![Depth].up = 0]
                      ELSE stack
    /\ UNCHANGED <<txs, ret>>

\* The program begins a transaction of its own on the pool.
CallerBegin ==
    /\ Depth = 0
    /\ ncalls < MaxCalls
    /\ ncalls' = ncalls + 1
    /\ txs' = Append(txs, NewTx("caller"))
    /\ UNCHANGED <<stack, ret, made>>

Next ==
    \/ \E db \in {h[1] : h \in Handles}, via \in {"top", "given", "other"} :
          TransactionBegin(db, via)
    \/ \E e \in {Nil, ErrBegin, ErrCommit, ErrTxDone} \cup ActionErrs : ActionReturns(e)
    \/ \E v \in PanicVals : ActionPanics(v)
    \/ Deferred
    \/ \E v \in Executors : CallNewTransactor(v)
    \/ CallerBegin

Spec == Init /\ [][Next]_vars

----------------------------------------------------------------------------
\* Vocabulary of the properties.

CallsOf(t, op) == SelectSeq(txs[t].calls, LAMBDA c : c.op = op)
CallsBy(t, op, d) == SelectSeq(txs[t].calls, LAMBDA c : c.op = op /\ c.by = d)

\* The stack was started on the pool or on a Root wrapper.
PoolRooted == Depth > 0 /\ IsPool(stack[1].db)
\* Every active inner invocation was made with the given Transactor.
GivenChain == \A i \in 2..Depth : stack[i].via = "given"
\* So was every finished one.
GivenSoFar == GivenChain /\ \A i \in 1..Depth : stack[i].allGiven
\* No action has ended otherwise than by returning nil.
NilSoFar == \A i \in 1..Depth : stack[i].allNil /\ stack[i].pc = "action"

\* An outermost invocation on the pool or a Root wrapper has just finished,
\* every invocation inside it having been made with the given Transactor.
OutermostDone == ret.depth = 1 /\ IsPool(ret.db) /\ ret.allGiven

----------------------------------------------------------------------------
\* C1  Commit ownership.  In a stack of nested Transaction calls started on
\* the pool or a Root wrapper, every inner call made with the given
\* Transactor: as long as actions only return nil, the transaction stays
\* open and receives no call while any invocation is active (so no inner
\* invocation commits it, and an inner nil return leaves it untouched); once
\* the outermost action has returned nil too, the transaction has received
\* exactly one call, a Commit issued by the outermost invocation.
C1_CommitOwnership ==
    /\ (PoolRooted /\ GivenSoFar /\ NilSoFar) =>
          /\ txs[stack[1].tx.tx].calls = <<>>
          /\ txs[stack[1].tx.tx].status = "open"
    /\ (OutermostDone /\ ret.act = Nil /\ ret.allNil) =>
          txs[ret.tx.tx].calls = <<[op |-> "Commit", by |-> 1]>>

\* An outermost invocation ended so, with two invocations nested in it of
\* which the last has just returned nil.
C1_Witness ==
    /\ OutermostDone /\ ret.act = Nil /\ ret.allNil
    /\ ret.inners >= 2
    /\ ret.val = Nil

\* C2  Nesting reuses one transaction.  An invocation made with the given
\* Transactor hands its action a wrapper of the transaction the enclosing
\* action holds and calls (*sql.DB).Begin not once; so in a stack started on
\* the pool or a Root wrapper every wrapper is of the outermost one's
\* transaction, and the outermost invocation ends with exactly one
\* (*sql.DB).Begin call made.
C2_OneTransaction ==
    /\ \A i \in 2..Depth :
          stack[i].via = "given" => stack[i].tx.tx = stack[i - 1].tx.tx
    /\ (PoolRooted /\ GivenSoFar) =>
          /\ \A i \in 1..Depth : stack[i].tx.tx = stack[1].tx.tx
          /\ stack[1].begun = 1
          /\ \A i \in 2..Depth : stack[i].begun = 0
    /\ OutermostDone => ret.begun = 1

\* Three invocations deep, the inner two made with the given Transactor.
C2_Witness ==
    /\ PoolRooted /\ GivenSoFar
    /\ Depth = 3
    /\ stack[3].tx.kind = Nested /\ stack[3].db.kind = Nested

\* An invocation has just finished; its wrapper, if it made one, embeds the
\* transaction RetTx.
Finished == ret.depth > 0
RetTx == txs[ret.tx.tx]
LastCall(t) == t.calls[Len(t.calls)]

\* C3 as stated, for an enclosing action that returns.  When the action of
\* an inner invocation made with the given Transactor returns an error, the
\* transaction has received a Rollback by the time the inner invocation
\* returns, and the enclosing invocation returns an error and leaves the
\* transaction uncommitted, whatever its action returns.
C3_Original ==
    /\ (ret.depth > 1 /\ ret.via = "given" /\ IsErr(ret.act)) =>
          CallsBy(ret.tx.tx, "Rollback", ret.depth) # <<>>
    /\ (Finished /\ ret.innerFailed /\ ret.act # Panicked) =>
          /\ ret.how = "return"
          /\ ret.val # Nil
          /\ RetTx.status # "committed"

\* C3  Rollback propagation, amended.  When the action of an inner
\* invocation made with the given Transactor returns an error, the inner
\* invocation ends with a Rollback that reaches the shared transaction, which
\* is done from then on.  The enclosing invocation commits nothing: if its
\* action returns an error it calls Rollback again and returns that error; if
\* its action returns nil it calls Commit, which for the outermost
\* (nestableTransactor) is refused with ErrTxDone, the error it returns, and
\* for an enclosing invocation that is itself nested (nestedTransactor) does
\* nothing, so that it returns nil; if its action panics it calls Rollback
\* and panics again, unless recover() reports nil, when it returns nil
\* without any finalize call.
C3_RollbackPropagation ==
    /\ (ret.depth > 1 /\ ret.via = "given" /\ IsErr(ret.act)) =>
          /\ ret.fin = "Rollback"
          /\ ret.issued = 1
          /\ LastCall(RetTx) = [op |-> "Rollback", by |-> ret.depth]
          /\ RetTx.status # "open"
    /\ \A i \in 1..Depth : stack[i].innerFailed =>
          /\ txs[stack[i].tx.tx].status # "open"
          /\ CallsOf(stack[i].tx.tx, "Rollback") # <<>>
    /\ (Finished /\ ret.innerFailed) =>
          /\ RetTx.status # "open"
          /\ IsErr(ret.act) =>
                ret.how = "return" /\ ret.val = ret.act /\ ret.fin = "Rollback"
          /\ (ret.act = Nil /\ ret.tx.kind = Nestable) =>
                /\ ret.how = "return" /\ ret.fin = "Commit"
                /\ ret.finErr = ErrTxDone /\ ret.val = ErrTxDone
          /\ (ret.act = Nil /\ ret.tx.kind = Nested) =>
                /\ ret.how = "return" /\ ret.fin = "Commit"
                /\ ret.issued = 0 /\ ret.val = Nil
          /\ (ret.act = Panicked /\ ret.pv # Nil) =>
                ret.how = "panic" /\ ret.val = ret.pv /\ ret.fin = "Rollback"
          /\ (ret.act = Panicked /\ ret.pv = Nil) =>
                ret.how = "return" /\ ret.val = Nil /\ ret.fin = "none"

\* The outermost invocation has returned ErrTxDone: its action returned nil
\* after an inner invocation's action had returned an error.
C3_Witness ==
    /\ OutermostDone /\ ret.innerFailed
    /\ ret.act = Nil
    /\ ret.val = ErrTxDone
    /\ RetTx.status = "rolledback"

\* C4  Panic safety.  When the action panics, Transaction calls Rollback on
\* its wrapper, calls no Commit, and the panic leaves Transaction with the
\* value recover() saw; Transaction does not return.
C4_PanicSafety ==
    (Finished /\ ret.act = Panicked) =>
        /\ ret.how = "panic"
        /\ ret.val = ret.pv
        /\ ret.fin = "Rollback"
        /\ LastCall(RetTx) = [op |-> "Rollback", by |-> ret.depth]

\* C5  A Transaction on the pool or a Root wrapper that returns nil has
\* committed the transaction it opened: the transaction received exactly one
\* Commit call and is committed.
C5_NilMeansCommitted ==
    (Finished /\ IsPool(ret.db) /\ ret.how = "return" /\ ret.val = Nil) =>
        /\ ret.tx # NoHandle
        /\ Len(CallsOf(ret.tx.tx, "Commit")) = 1
        /\ RetTx.status = "committed"

\* C6 as stated.  A Transaction on the pool or a Root wrapper that returns
\* an error opened a transaction that received exactly one Rollback call.
C6_Original ==
    (Finished /\ IsPool(ret.db) /\ ret.how = "return" /\ ret.val # Nil) =>
        /\ ret.tx # NoHandle
        /\ Len(CallsOf(ret.tx.tx, "Rollback")) = 1

\* C6  amended.  A Transaction on the pool or a Root wrapper that returns an
\* error returns Begin's, and then no transaction was opened and nothing was
\* called; or Commit's, and then it called Commit and no Rollback; or its
\* action's, and then it called Rollback exactly once itself and no Commit,
\* on a transaction that no Commit reached.  In the last case that is the
\* only Rollback the transaction received if every action inside returned
\* nil, and it comes after another one if an inner action's error was passed
\* up.
C6_ErrorMeansRollback ==
    (Finished /\ IsPool(ret.db) /\ ret.how = "return" /\ ret.val # Nil) =>
        \/ /\ ret.act = NotInvoked
           /\ ret.val = ret.beginErr
           /\ ret.tx = NoHandle /\ ret.fin = "none" /\ ret.issued = 0
        \/ /\ ret.act = Nil
           /\ ret.fin = "Commit" /\ ret.val = ret.finErr /\ ret.issued = 1
           /\ CallsBy(ret.tx.tx, "Rollback", ret.depth) = <<>>
           /\ LastCall(RetTx) = [op |-> "Commit", by |-> ret.depth]
        \/ /\ IsErr(ret.act)
           /\ ret.val = ret.act
           /\ ret.fin = "Rollback" /\ ret.issued = 1
           /\ Len(CallsBy(ret.tx.tx, "Rollback", ret.depth)) = 1
           /\ LastCall(RetTx) = [op |-> "Rollback", by |-> ret.depth]
           /\ CallsOf(ret.tx.tx, "Commit") = <<>>
           /\ (ret.allNil /\ ret.allGiven) =>
                 Len(CallsOf(ret.tx.tx, "Rollback")) = 1
           /\ ret.innerFailed => Len(CallsOf(ret.tx.tx, "Rollback")) >= 2

\* The outermost invocation has returned the error of an inner action, after
\* a second Rollback.
C6_Witness ==
    /\ OutermostDone /\ ret.innerFailed
    /\ IsErr(ret.act) /\ ret.val = ret.act
    /\ RetTx.calls = <<[op |-> "Rollback", by |-> 2], [op |-> "Rollback", by |-> 1]>>

\* C7  No transaction is left open.  When the outermost Transaction on the
\* pool or a Root wrapper has finished, however it did, the transaction it
\* opened has received a Commit or a Rollback and is not open.
C7_NothingLeftOpen ==
    (ret.depth = 1 /\ IsPool(ret.db) /\ ret.tx # NoHandle) =>
        /\ RetTx.calls # <<>>
        /\ RetTx.status # "open"

\* C8  First error wins.  When the action returns an error, Transaction
\* calls Rollback on its wrapper and nothing else (the one call that reaches
\* the transaction is that Rollback) and returns the action's error,
\* whatever the Rollback answered.
C8_FirstErrorWins ==
    (Finished /\ IsErr(ret.act)) =>
        /\ ret.how = "return"
        /\ ret.val = ret.act
        /\ ret.fin = "Rollback"
        /\ ret.issued = 1
        /\ LastCall(RetTx) = [op |-> "Rollback", by |-> ret.depth]

\* The action's error has been returned after a Rollback that failed.
C8_Witness ==
    /\ Finished /\ IsErr(ret.act)
    /\ ret.finErr = ErrRollback
    /\ ret.val \in ActionErrs

\* C9  Begin failure.  When db.Begin() returns an error, Transaction returns
\* that error; the action is not invoked, no wrapper is made, and no call
\* reaches any transaction.  An action that is running was invoked after a
\* Begin that returned no error.
C9_BeginFailure ==
    /\ (Finished /\ ret.beginErr # Nil) =>
          /\ ret.how = "return"
          /\ ret.val = ret.beginErr
          /\ ret.act = NotInvoked
          /\ ret.tx = NoHandle
          /\ ret.fin = "none" /\ ret.issued = 0
    /\ \A i \in 1..Depth : stack[i].beginErr = Nil /\ stack[i].tx # NoHandle

\* Begin has failed for a Transaction that an action called on the pool.
C9_Witness ==
    /\ Finished /\ ret.beginErr = ErrBegin
    /\ ret.depth = 2
    /\ InAction /\ Top.inner = ErrBegin

\* C10  Factory classification.  NewTransactor makes a dbTransactor, whose
\* Commit and Rollback do nothing and return nil, of the pool, a
\* nestableTransactor of a *sql.Tx, over it, and a nestedTransactor of a
\* nestedTransactor, over the same transaction; it panics for a dbTransactor
\* and for a nestableTransactor.
C10_Factory ==
    /\ made.arg.kind = SqlDB =>
          /\ ~made.panics /\ made.val = Handle(Root, 0)
          /\ Commit(made.val, 0, txs) = {[err |-> Nil, txs |-> txs]}
          /\ Rollback(made.val, 0, txs) = {[err |-> Nil, txs |-> txs]}
    /\ made.arg.kind = SqlTx =>
          ~made.panics /\ made.val = Handle(Nestable, made.arg.tx)
    /\ made.arg.kind = Nested =>
          ~made.panics /\ made.val = Handle(Nested, made.arg.tx)
    /\ made.arg.kind \in {Root, Nestable} =>
          made.panics /\ made.val = NoHandle

\* NewTransactor has been called with the nestedTransactor an action was
\* given.
C10_Witness ==
    /\ InAction /\ Top.tx.kind = Nested
    /\ made.arg = Top.tx
    /\ made.val.kind = Nested

\* C11  Commit path result.  When Begin succeeded and the action returns
\* nil, Transaction calls Commit on its wrapper, once, and no Rollback, and
\* returns what Commit answered: for a nestableTransactor that Commit is the
\* one call that reaches the transaction and Transaction returns its error
\* (nil, the driver's, or ErrTxDone), also when it failed; for a
\* nestedTransactor no call reaches the transaction and Transaction returns
\* nil.
C11_CommitPath ==
    (Finished /\ ret.act = Nil) =>
        /\ ret.beginErr = Nil
        /\ ret.how = "return"
        /\ ret.fin = "Commit"
        /\ ret.val = ret.finErr
        /\ ret.tx.kind = Nestable =>
              /\ ret.issued = 1
              /\ LastCall(RetTx) = [op |-> "Commit", by |-> ret.depth]
              /\ ret.val = Nil <=> RetTx.status = "committed"
        /\ ret.tx.kind = Nested =>
              /\ ret.issued = 0
              /\ ret.val = Nil

\* The outermost invocation has returned the error of a Commit that failed
\* on an open transaction, which no Rollback followed.
C11_Witness ==
    /\ Finished /\ ret.act = Nil
    /\ ret.tx.kind = Nestable
    /\ ret.val = ErrCommit
    /\ RetTx.calls = <<[op |-> "Commit", by |-> ret.depth]>>

\* C12  Wrapper classification.  The wrapper an action is given is a
\* nestedTransactor if and only if Transaction was called with a
\* nestableTransactor or a nestedTransactor, and then it embeds the
\* transaction of that handle; for every other handle (the pool, a
\* dbTransactor, a Beginner of the program's own) it is a nestableTransactor
\* over the transaction Begin began, which no other such invocation holds.
\* It is never a dbTransactor.
WrapperOf(db, w) ==
    /\ w.kind \in {Nestable, Nested}
    /\ w.kind = Nested <=> db.kind \in {Nestable, Nested}
    /\ db.kind \in {Nestable, Nested} => w.tx = db.tx
    /\ db.kind \notin {Nestable, Nested} =>
          /\ w.tx \in 1..Len(txs)
          /\ txs[w.tx].opener = "Transaction"

C12_Classification ==
    /\ \A i \in 1..Depth : WrapperOf(stack[i].db, stack[i].tx)
    /\ \A i, j \in 1..Depth :
          (i # j /\ stack[i].db.kind \notin {Nestable, Nested}
                 /\ stack[j].db.kind \notin {Nestable, Nested}) =>
             stack[i].tx.tx # stack[j].tx.tx
    /\ (Finished /\ ret.act # NotInvoked) => WrapperOf(ret.db, ret.tx)

\* Actions are running for a Transaction on a dbTransactor, inside it one on
\* a Beginner of the program's own, inside it one on the Transactor given.
C12_Witness ==
    /\ Depth = 3
    /\ stack[1].db.kind = Root /\ stack[1].tx.kind = Nestable
    /\ stack[2].db.kind = Custom /\ stack[2].tx.kind = Nestable
    /\ stack[3].db.kind = Nestable /\ stack[3].tx.kind = Nested

\* C13  Transaction never commits a transaction it did not open.  Called
\* with the nestableTransactor NewTransactor made of a transaction the
\* program began, Transaction begins none: its wrapper is of that
\* transaction.  When the action returns nil it returns nil and no call of
\* its own reaches the transaction, which never receives a Commit and is
\* open unless a Rollback reached it; when the action returns an error or
\* panics, it calls Rollback on the transaction.
OfOpenTx ==
    /\ Finished
    /\ ret.db.kind = Nestable
    /\ txs[ret.db.tx].opener = "caller"

C13_ForeignTransaction ==
    OfOpenTx =>
        /\ ret.beginErr = Nil
        /\ ret.tx = Handle(Nested, ret.db.tx)
        /\ ret.inners = 0 => ret.begun = 0
        /\ CallsOf(ret.db.tx, "Commit") = <<>>
        /\ CallsOf(ret.db.tx, "Rollback") = <<>> => RetTx.status = "open"
        /\ ret.act = Nil =>
              ret.how = "return" /\ ret.val = Nil /\ ret.issued = 0
        /\ (IsErr(ret.act) \/ ret.act = Panicked) =>
              /\ ret.fin = "Rollback"
              /\ ret.issued = 1
              /\ LastCall(RetTx) = [op |-> "Rollback", by |-> ret.depth]

\* The transactions Transaction has begun since the outermost active
\* invocation was called on the pool or a Root wrapper, and those of them
\* that are open.
StackTxs ==
    { t \in 1..Len(txs) : t >= stack[1].tx.tx /\ txs[t].opener = "Transaction" }
OpenInStack == { t \in StackTxs : txs[t].status = "open" }

\* C14 as stated.  Whatever handles the Transaction calls made inside an
\* outermost Transaction are given, at most one of the transactions begun
\* in it is open.
C14_Original ==
    PoolRooted => Cardinality(OpenInStack) <= 1

\* C14  amended.  As long as every Transaction call made inside an outermost
\* Transaction is given the Transactor its enclosing action received, the
\* only transaction begun is the outermost one's, so at most one is open.
\* An inner call given the pool, a Root wrapper or a Beginner of the
\* program's own holds a transaction that no enclosing invocation holds.
C14_OneLive ==
    /\ (PoolRooted /\ GivenSoFar) =>
          /\ StackTxs = {stack[1].tx.tx}
          /\ Cardinality(OpenInStack) <= 1
    /\ \A i \in 2..Depth :
          stack[i].db.kind \in {SqlDB, Root, Custom} =>
             /\ stack[i].tx.tx > stack[1].tx.tx
             /\ \A j \in 1..(i - 1) : stack[j].tx.tx # stack[i].tx.tx

\* Inside an outermost Transaction a nested one has finished and a second
\* one is active, both on the given Transactor; the one transaction is open.
C14_Witness ==
    /\ PoolRooted /\ GivenSoFar
    /\ Depth = 2
    /\ stack[1].inners >= 1
    /\ OpenInStack = {stack[1].tx.tx}

\* C15  Finalize discipline per call.  An invocation of Transaction makes at
\* most one finalize call on its wrapper, so that at most one call of it
\* reaches the transaction: Commit if its action returned nil, Rollback if
\* its action returned an error or panicked, none if the action was not
\* invoked.  It makes the call after the action has ended: the calls a
\* transaction receives come one at a time, each in the step in which the
\* innermost active invocation finishes, issued by it.
FinalizeByOutcome ==
    Finished =>
        /\ ret.issued <= 1
        /\ ret.fin = "none" => ret.issued = 0
        /\ ret.act = NotInvoked => ret.fin = "none"
        /\ ret.act = Nil => ret.fin = "Commit"
        /\ (IsErr(ret.act) \/ ret.act = Panicked) => ret.fin = "Rollback"
        /\ ret.fin = "Rollback" =>
              /\ ret.issued = 1
              /\ LastCall(RetTx) = [op |-> "Rollback", by |-> ret.depth]
        /\ (ret.fin = "Commit" /\ ret.tx.kind = Nestable) =>
              /\ ret.issued = 1
              /\ LastCall(RetTx) = [op |-> "Commit", by |-> ret.depth]
        /\ (ret.fin = "Commit" /\ ret.tx.kind = Nested) => ret.issued = 0

FinalizeAfterAction ==
    CallCount(txs') # CallCount(txs) =>
        /\ Depth > 0
        /\ stack' = Returned(SubSeq(stack, 1, Depth - 1), ret')
        /\ ret'.depth = Depth /\ ret'.tx = Top.tx
        /\ ret'.act # NotInvoked
        /\ CallCount(txs') = CallCount(txs) + 1
        /\ txs'[Top.tx.tx].calls =
              Append(txs[Top.tx.tx].calls, [op |-> ret'.fin, by |-> Depth])

C15_FinalizeDiscipline == []FinalizeByOutcome /\ [][FinalizeAfterAction]_vars

\* C16  Rollback is repeated at every level.  When an error returned by, or
\* a panic raised in, the innermost action of n nested invocations has been
\* passed up unchanged to the end of the outermost of them, the last n calls
\* the shared transaction received are Rollbacks, one from each invocation,
\* innermost first, and they are all it received if the outermost one began
\* it on the pool or a Root wrapper; the transaction is done and not
\* committed by them, each Rollback after the first was refused with
\* ErrTxDone, and the error or panic leaves the outermost invocation as it
\* was.
C16_RollbackAtEveryLevel ==
    (Finished /\ ret.levels >= 1) =>
        LET c == RetTx.calls
            n == ret.levels
        IN /\ Len(c) >= n
           /\ \A k \in 1..n :
                 c[Len(c) - n + k] = [op |-> "Rollback", by |-> ret.depth + n - k]
           /\ (ret.depth = 1 /\ IsPool(ret.db)) =>
                 Len(c) = n /\ RetTx.status = "rolledback"
           /\ n >= 2 => ret.finErr = ErrTxDone
           /\ ret.fin = "Rollback"
           /\ IsErr(ret.act) => ret.how = "return" /\ ret.val = ret.act
           /\ ret.act = Panicked => ret.how = "panic" /\ ret.val = ret.pv

====
